---- MODULE Spec2Model ----
(***************************************************************************)
(* Speech-to-text quota pipeline of the translator bot.                    *)
(*                                                                         *)
(* The model covers one quota key (one user, one local day) of the Redis   *)
(* store of app_redis.py and the request handler _run_stt_with_lang of     *)
(* events.py, run by several concurrent requests of that user.  A step of  *)
(* a request is the code between two await points that touch shared state; *)
(* every Redis command is a step of its own, the Lua script is one step.   *)
(* Steps that touch no shared state (the download, the recognizer calls,   *)
(* the except block's message) are taken together with the step they lead  *)
(* to.  A Redis command either completes or raises without effect.         *)
(*                                                                         *)
(* Spec     the requests of one user, run concurrently                     *)
(* SpecSeq  the same requests, run one after another                       *)
(* SpecLong transcribe_long_audio_bytes of stt_google_async.py: upload,    *)
(*          start, poll, cleanup of the uploaded object, per delete policy *)
(* SpecRun  the recognition attempts of one request (events.py 162-294)    *)
(*          with the requests _run_once and stt_transcribe_bytes send      *)
(* SpecAlts pick_alternative_langs of stt_lang_utils.py, called on bounded *)
(*          histograms and context biases (weights in tenths)              *)
(***************************************************************************)
EXTENDS Integers, Sequences, FiniteSets, TLC

\* ---------------------------------------------------------------- constants

\* config.py: STT_DAILY_LIMIT_SECONDS (default)
STT_DAILY_LIMIT_SECONDS == 120

\* events.py: reservation floor used when the duration probe returns 0
PROBE_FLOOR == 60

\* concurrent requests of the same user (same quota key, same channel)
Requests == {"r1", "r2"}

\* values probe_duration_seconds returns in the model: 0 is a failed probe,
\* ClipSeconds a clip that fits the limit once but not after another reservation
ClipSeconds == 61
ProbeResults == {0, ClipSeconds}

\* what one recognition attempt returns, as the (text, raw) pair of _run_once:
\*   Text     non-empty transcript, raw without error
\*   Empty    "" and raw without error
\*   ErrText  text starting with the cross mark (HTTP non-200, upload/start/poll error)
\*   ErrEmpty "" and raw carrying an "error" (operation error, poll timeout)
\*   Timeout  the hourglass text of a sync read timeout, raw = {}
Results == {"Text", "Empty", "ErrText", "ErrEmpty", "Timeout"}

NoKey == [exists |-> FALSE, val |-> 0, ttl |-> FALSE]

\* concurrent calls of transcribe_long_audio_bytes (each uploads its own object)
Calls == {"c1", "c2"}

\* a positive GCS_DELETE_DELAY_SECONDS
DelaySeconds == 30

\* max_wait_sec / interval_sec: the polls after which the loop gives up
MaxPolls == 2

\* events.py line 183 and stt_google_sync.py line 225: the synchronous ceiling
SYNC_MAX_BYTES == 9000000

\* stt_google_sync.py line 184: compressed audio above this goes long-running
FORCE_LONG_BYTES == 1800000

\* blob sizes in the model: each threshold and the byte after it
Sizes == {FORCE_LONG_BYTES, FORCE_LONG_BYTES + 1, SYNC_MAX_BYTES, SYNC_MAX_BYTES + 1}

\* attachments: extension of the file name and declared content type
Files == {[ext |-> ".wav", ctype |-> "audio/wav"],
          [ext |-> ".ogg", ctype |-> "audio/ogg"],
          [ext |-> ".mp3", ctype |-> "audio/mpeg"],
          [ext |-> ".m4a", ctype |-> "audio/mp4"],
          [ext |-> "", ctype |-> "audio/aac"],
          [ext |-> ".webm", ctype |-> "audio/webm"],
          [ext |-> ".webm", ctype |-> "audio/webm;codecs=opus"],
          [ext |-> ".amr", ctype |-> "audio/amr"]}

\* events.py line 177: max_alts
MAX_ALTS == 3

\* languages of the panel and the codes of FALLBACK_ALTS_ORDER kept in the
\* model, in the order of the list
Primaries == {"th-TH", "en-US"}
FALLBACK_ALTS_ORDER == <<"en-US", "th-TH", "ja-JP", "ko-KR", "vi-VN">>
AltPool == {FALLBACK_ALTS_ORDER[i] : i \in DOMAIN FALLBACK_ALTS_ORDER}

\* histogram counts in the model: 0..MaxCount
MaxCount == 1

\* max_alts in the model: 0..MaxAltsArg
MaxAltsArg == 5

\* the codes a channel and a user have histogram entries for in the model
\* (xx-XX is not in the pool)
ChannelCodes == {"en-US", "ja-JP", "xx-XX"}
UserCodes == {"ja-JP", "ko-KR", "vi-VN"}

\* local midnights that pass in the model
MaxDays == 1

\* the interactions that arrive for one panel
Interactions == {"i1", "i2", "i3"}

\* ui codes of buttons and dropdown options: mapped, alias, mapped by its
\* base, unknown
UiCodes == {"th", "kh", "ja-JP", "xx"}

\* max_wait_sec in the model: 0..MaxWaitTenths tenths of a second
MaxWaitTenths == 12

\* interval_sec in the model, in tenths of a second: 0.1, 0.3, 0.5, 1.0
Intervals == {1, 3, 5, 10}

NoCall == [pc |-> "idle", poll |-> TRUE, waited |-> 0, res |-> "none",
           site |-> "none", tried |-> FALSE]

VARIABLES
  redisClient,   \* app_redis._redis is not None
  quota,         \* the key stt:sec:<date>:<user>: [exists, val, ttl]
  chanHist,      \* count stored under langhist:channel:<id> for the detected code
  userHist,      \* count stored under langhist:user:<id> for the detected code
  pc,            \* position of each request in _run_stt_with_lang
  reserved_sec,  \* local reserved_sec
  text,          \* local (text, raw) once recognition is over, as a result kind
  hist,          \* local hist of incr_*_lang_hist between its GET and its SET
  outcome,       \* how the request ended (or is about to end)
  scratch,       \* the scratch file of download_to_temp: "none", "file", "removed"
  obs            \* what each request did so far (history, not program state)

\* transcribe_long_audio_bytes of stt_google_async.py, run by several calls
VARIABLES
  delete_immediately,    \* GCS_DELETE_IMMEDIATELY, as read at lines 267-268
  delete_after_seconds,  \* GCS_DELETE_DELAY_SECONDS, as read at lines 270-274
  call,                  \* each call: position, poll argument, polls waited,
                         \* result, the place it returned from, whether it
                         \* called _gcs_delete_object itself
  gcs,                   \* the object of each call in the bucket
  delTask                \* the _delete_later task of each call

\* the recognition attempts of one request (_run_stt_with_lang lines 162-294,
\* _run_once, stt_transcribe_bytes) with the requests they put on the wire
VARIABLES
  base_lang_code,  \* the language chosen in the panel
  alt_smart,       \* pick_alternative_langs(...): the alternates, as a set
  bucket,          \* GCS_BUCKET_NAME is set in the environment
  filename,        \* extension of a.filename
  content_type,    \* a.content_type
  raw_bytes,       \* len(raw_bytes)
  audio_bytes,     \* len(audio_bytes)
  filename2,       \* extension of filename2
  content_type2,   \* content type of audio_bytes
  use_long,        \* local use_long
  did_trans,       \* ensure_stt_compatible transcoded
  retranscoded,    \* the re-transcode of lines 269-280 succeeded
  at,              \* position in the attempts
  ending,          \* how the attempts ended
  result,          \* the (text, raw) the request holds, as a result kind
  attempts,        \* the _run_once calls made: kind and result
  sent,            \* the recognition requests put on the wire
  failed           \* the transcodes that raised so far (history)

\* pick_alternative_langs of stt_lang_utils.py, called on its own
VARIABLES
  base_lang,     \* argument base_lang
  max_alts,      \* argument max_alts
  channel_hist,  \* argument channel_hist: code -> count
  user_hist,     \* argument user_hist: code -> count
  context_bias,  \* argument context_bias: code -> score in tenths
  picked_alts,   \* the list returned
  picked         \* the call has returned

\* the local date of app_redis._local_datestr, which names the quota key
VARIABLES
  today,         \* local midnights passed since the start
  yesterday,     \* the quota key of the date before, as midnight left it
  reservedOn     \* per request: the date of its stt_try_reserve (history)

dayVars == <<today, yesterday, reservedOn>>

\* one STTLanguagePanel of stt_select_panel.py and the interactions with it
VARIABLES
  processing,    \* view.processing
  clicks,        \* per interaction: position of its callback, ui code chosen
  calls,         \* the codes on_choose_lang was invoked with, in order (history)
  reserves,      \* calls of stt_try_reserve made by on_choose_lang (history)
  stopped,       \* view.stop() was called
  disabled       \* the buttons and the dropdown were disabled

panelVars == <<processing, clicks, calls, reserves, stopped, disabled>>

\* _speech_poll_operation of stt_google_async.py and the join that follows it
VARIABLES
  max_wait_sec,  \* argument max_wait_sec, in tenths of a second
  interval_sec,  \* argument interval_sec, in tenths of a second
  waited,        \* local waited, as the number of interval_sec added to 0.0
  queries,       \* GETs of the operation issued so far (history)
  op,            \* what the loop returned: "none", "done", "timeout", "raise"
  joined         \* the result transcribe_long_audio_bytes makes of it

pollVars == <<max_wait_sec, interval_sec, waited, queries, op, joined>>

altVars == <<base_lang, max_alts, channel_hist, user_hist, context_bias, picked_alts,
            picked>>

runVars == <<base_lang_code, alt_smart, bucket, filename, content_type, raw_bytes,
             audio_bytes, filename2, content_type2, use_long, did_trans,
             retranscoded, at, ending, result, attempts, sent, failed>>

quotaVars == <<redisClient, quota, chanHist, userHist, pc, reserved_sec, text, hist,
               outcome, scratch, obs>>

longVars == <<delete_immediately, delete_after_seconds, call, gcs, delTask>>

vars == <<quotaVars, longVars, runVars, altVars, pollVars, panelVars, dayVars>>

\* nReserve, nRefund: calls of stt_try_reserve / stt_refund; via: how the
\* reservation was decided; ok: its result; net: the request's own net change of
\* the counter; att: the recognition attempts so far ("none", "empty": all
\* returned Empty, "apierr": attempt 1 returned an API error and was the last,
\* "apierr+": attempts followed it, "other"); histCalls: calls of
\* incr_*_lang_hist; negUsed, negCur: a negative value was returned by
\* stt_get_used / read by the script; pre: the counter a running stt_refund found
\* before its DECRBY (kept until the refund's TTL step); histErr: a GET or SET
\* of a histogram raised
NoObs == [nReserve |-> 0, nRefund |-> 0, via |-> "none", ok |-> FALSE,
          net |-> 0, att |-> "none", histCalls |-> 0,
          negUsed |-> FALSE, negCur |-> FALSE, pre |-> 0, histErr |-> FALSE]

\* ------------------------------------------------------------ Redis commands

\* GET key, as int(v or 0)
GetInt(k) == IF k.exists THEN k.val ELSE 0

\* INCR in place of INCRBY: the amount is ignored
IncrByOne(k, d) == [exists |-> TRUE, val |-> GetInt(k) + 1, ttl |-> k.exists /\ k.ttl]

\* INCRBY / DECRBY: create the key when absent, keep its expiry
IncrBy(k, d) == [exists |-> TRUE, val |-> GetInt(k) + d, ttl |-> k.exists /\ k.ttl]

\* the clamp left out: the key stays as DECRBY left it
SetNothing(k) == k

\* SET key 0: plain SET discards the expiry
SetZero(k) == [exists |-> TRUE, val |-> 0, ttl |-> FALSE]

\* EXPIRE key ttl (ttl > 0): no effect on a missing key
Expire(k) == IF k.exists THEN [k EXCEPT !.ttl = TRUE] ELSE k

\* TTL key: -2 missing key, -1 no expiry, positive otherwise
Ttl(k) == IF ~k.exists THEN -2 ELSE IF ~k.ttl THEN -1 ELSE 1

\* ------------------------------------------------------------- app_redis.py

\* the script with the bound check dropped to the current value only
LuaReserveNoDelta(k, limit, delta) ==
  LET cur == GetInt(k) IN
  IF cur > limit
    THEN [key |-> k, res |-> -1]
    ELSE [key |-> Expire(IncrBy(k, delta)), res |-> cur + delta]

\* _LUA_RESERVE: the new key state and the script's reply
LuaReserve(k, limit, delta) ==
  LET cur == GetInt(k) IN
  IF cur + delta > limit
    THEN [key |-> k, res |-> -1]
    ELSE [key |-> Expire(IncrBy(k, delta)), res |-> cur + delta]

\* stt_try_reserve line 129: the reply turned into the result
ReplyOk(res) == res # -1

\* fail-closed variant of the error policy
StoreErrorFailClosed == FALSE

\* stt_try_reserve lines 111-113 and 130-132: no client, or a store call raised
StoreErrorResult == TRUE

\* ---------------------------------------------------------------- events.py

\* the probed duration reserved as it is
ReserveSecondsRaw(p) == p

\* lines 131-135: the seconds reserved for a probed duration
ReserveSeconds(p) == IF p <= 0 THEN PROBE_FLOOR ELSE p

\* line 242: text.startswith(cross) or raw.get("error")
IsApiError(res) == res \in {"ErrText", "ErrEmpty"}

\* (text or "").strip() is non-empty
HasText(res) == res \in {"Text", "ErrText", "Timeout"}

\* line 347: the handler refunds only a reservation it knows of
HandlerRefunds(sec) == sec > 0

\* the API-error branch refunds again instead of returning
RefundNoReturn(o) == IF o = "ApiError" THEN "rf_decr" ELSE "done"

\* lines 160, 256 and the end of the handler: return after stt_refund
RefundReturn(o) == "done"

\* an empty result after the attempts is refunded like an API error
EmptyEndRefunded == "apierr"

\* lines 291-294: empty text after the attempts is the NoSpeech return, which
\* keeps the reservation
EmptyEnd == "nospeech"

\* lines 237-294: the attempts of one request. dt is did_trans, a1..a4 what the
\* four possible _run_once calls return ("Raise": the call raises), tr whether
\* the re-transcode of lines 269-273 succeeds. The result is how the sequence
\* ends, the text it leaves and the results of the attempts made.
Recognition(dt, a1, a2, tr, a3, a4) ==
  IF a1 = "Raise" THEN [end |-> "raise", text |-> "Empty", made |-> <<a1>>]
  ELSE IF IsApiError(a1) THEN [end |-> "apierr", text |-> a1, made |-> <<a1>>]
  ELSE IF HasText(a1) THEN [end |-> "post", text |-> a1, made |-> <<a1>>]
  ELSE IF a2 = "Raise" THEN [end |-> "raise", text |-> a1, made |-> <<a1, a2>>]
  ELSE IF HasText(a2) THEN [end |-> "post", text |-> a2, made |-> <<a1, a2>>]
  ELSE IF dt \/ ~tr THEN [end |-> EmptyEnd, text |-> a1, made |-> <<a1, a2>>]
  ELSE IF a3 = "Raise" THEN [end |-> EmptyEnd, text |-> a1, made |-> <<a1, a2, a3>>]
  ELSE IF HasText(a3) THEN [end |-> "post", text |-> a3, made |-> <<a1, a2, a3>>]
  ELSE IF a4 = "Raise" THEN [end |-> EmptyEnd, text |-> a1, made |-> <<a1, a2, a3, a4>>]
  ELSE IF HasText(a4) THEN [end |-> "post", text |-> a4, made |-> <<a1, a2, a3, a4>>]
  ELSE [end |-> EmptyEnd, text |-> a3, made |-> <<a1, a2, a3, a4>>]

\* every way the attempts of a request can go
Recognitions ==
  {Recognition(dt, a1, a2, tr, a3, a4) :
     dt \in BOOLEAN, tr \in BOOLEAN,
     a1 \in Results \cup {"Raise"}, a2 \in Results \cup {"Raise"},
     a3 \in Results \cup {"Raise"}, a4 \in Results \cup {"Raise"}}

\* -------------------------------------------------------------------- Init

\* no call of transcribe_long_audio_bytes under way, nothing in the bucket
NoCalls ==
  /\ call = [c \in Calls |-> NoCall]
  /\ gcs = [c \in Calls |-> "none"]
  /\ delTask = [c \in Calls |-> "none"]

\* no request under way, the day's key not yet created
NoRequests ==
  /\ quota = NoKey
  /\ chanHist = 0
  /\ userHist = 0
  /\ pc = [r \in Requests |-> "idle"]
  /\ reserved_sec = [r \in Requests |-> 0]
  /\ text = [r \in Requests |-> "Empty"]
  /\ hist = [r \in Requests |-> 0]
  /\ outcome = [r \in Requests |-> "none"]
  /\ scratch = [r \in Requests |-> "none"]
  /\ obs = [r \in Requests |-> NoObs]

\* the locals of the attempts before line 162, for one attachment and language
NoAttempts(f, size, lang, alts, b) ==
  /\ base_lang_code = lang
  /\ alt_smart = alts
  /\ bucket = b
  /\ filename = f.ext
  /\ content_type = f.ctype
  /\ raw_bytes = size
  /\ audio_bytes = size
  /\ filename2 = f.ext
  /\ content_type2 = f.ctype
  /\ use_long = FALSE
  /\ did_trans = FALSE
  /\ retranscoded = FALSE
  /\ at = "normalize"
  /\ ending = "none"
  /\ result = "Empty"
  /\ attempts = <<>>
  /\ sent = {}
  /\ failed = {}

NoRun == NoAttempts([ext |-> ".wav", ctype |-> "audio/wav"], FORCE_LONG_BYTES,
                    "th-TH", {"en-US", "ja-JP", "ko-KR"}, TRUE)

\* the date of the start, nothing reserved yet
NoMidnight ==
  /\ today = 0
  /\ yesterday = NoKey
  /\ reservedOn = [r \in Requests |-> -1]

\* a panel nobody has interacted with (lines 120-125)
NoPanel ==
  /\ processing = FALSE
  /\ clicks = [i \in Interactions |-> [pc |-> "none", code |-> "none"]]
  /\ calls = <<>>
  /\ reserves = 0
  /\ stopped = FALSE
  /\ disabled = FALSE

\* _speech_poll_operation not called (the default arguments, lines 200-201)
NoPoll ==
  /\ max_wait_sec = 9000
  /\ interval_sec = 50
  /\ waited = 0
  /\ queries = 0
  /\ op = "none"
  /\ joined = "none"

\* pick_alternative_langs not called
NoPick ==
  /\ base_lang = "th-TH"
  /\ max_alts = MAX_ALTS
  /\ channel_hist = [c \in ChannelCodes |-> 0]
  /\ user_hist = [c \in UserCodes |-> 0]
  /\ context_bias = [c \in AltPool |-> 0]
  /\ picked_alts = <<>>
  /\ picked = FALSE

Init ==
  /\ redisClient \in BOOLEAN
  /\ NoRequests
  /\ delete_immediately = FALSE
  /\ delete_after_seconds = 0
  /\ NoCalls
  /\ NoRun
  /\ NoPick
  /\ NoPoll
  /\ NoPanel
  /\ NoMidnight

\* media_utils.py lines 176-193, download_to_temp: the scratch file after a
\* call that returned (ok) and after a call that raised, where
\* NamedTemporaryFile may have made the file before attachment.save raised
Downloaded(ok) == IF ok THEN {"file"} ELSE {"none", "file"}

\* events.py lines 351-356, the finally block: a known tmp_path is removed
Finally(tmp_path, s) == IF tmp_path THEN "removed" ELSE s

\* a request moves to position p with locals t, h; the locals of a request
\* that returned are gone. The first step is the download (tmp_path is set
\* from then on); a request that leaves runs the finally block
Goto(r, p, t, h) ==
  /\ pc' = [pc EXCEPT ![r] = p]
  /\ \E s \in (IF pc[r] = "idle" THEN Downloaded(p # "done") ELSE {scratch[r]}) :
       scratch' = [scratch EXCEPT ![r] = IF p = "done"
                                           THEN Finally(pc[r] # "idle", s) ELSE s]
  /\ text' = [text EXCEPT ![r] = IF p \in {"post", "ch_set", "us_get", "us_set", "send"}
                                   THEN t ELSE "Empty"]
  /\ hist' = [hist EXCEPT ![r] = IF p \in {"ch_set", "us_set"} THEN h ELSE 0]

Move(r, p) == Goto(r, p, text[r], hist[r])

Note(r, o) == obs' = [obs EXCEPT ![r] = o]

\* lines 334-350, the except block of a request that reserved sec: the error
\* message is sent (the send may raise and leave the handler), then a known
\* reservation is refunded
Handler(r, sec) ==
  \/ /\ outcome' = [outcome EXCEPT ![r] = "Raised"]
     /\ Move(r, "done")
  \/ /\ outcome' = [outcome EXCEPT ![r] = "Failed"]
     /\ Move(r, IF HandlerRefunds(sec) THEN "rf_decr" ELSE "done")

\* ---------------------------------------------------- _run_stt_with_lang

\* lines 125-135: download to a scratch file, probe the duration
Prepare(r) ==
  /\ pc[r] = "idle"
  /\ \/ /\ Handler(r, 0)                       \* download_to_temp raises
        /\ UNCHANGED reserved_sec
     \/ \E p \in ProbeResults :
          /\ reserved_sec' = [reserved_sec EXCEPT ![r] = ReserveSeconds(p)]
          /\ Move(r, "reserve")
          /\ UNCHANGED outcome
  /\ UNCHANGED <<redisClient, quota, chanHist, userHist, obs>>

\* line 140 and stt_try_reserve: without a client, or when the store call
\* raises, the error policy decides; otherwise the script runs as one step.
\* (script_load, evalsha and eval run the same script and are not told apart.)
TryReserve(r) ==
  /\ pc[r] = "reserve"
  /\ \/ /\ UNCHANGED quota                     \* no client, or the call raises
        /\ Note(r, [obs[r] EXCEPT
                      !.nReserve = @ + 1,
                      !.via = IF redisClient THEN "raise" ELSE "noclient",
                      !.ok = StoreErrorResult])
        /\ Move(r, IF StoreErrorResult THEN "recog" ELSE "quota")
     \/ LET scr == LuaReserve(quota, STT_DAILY_LIMIT_SECONDS, reserved_sec[r])
        IN /\ redisClient
           /\ quota' = scr.key
           /\ Note(r, [obs[r] EXCEPT
                         !.nReserve = @ + 1,
                         !.via = "reply",
                         !.ok = ReplyOk(scr.res),
                         !.negCur = GetInt(quota) < 0,
                         !.net = @ + GetInt(scr.key) - GetInt(quota)])
           /\ Move(r, IF ReplyOk(scr.res) THEN "recog" ELSE "quota")
  /\ UNCHANGED <<redisClient, chanHist, userHist, reserved_sec, outcome>>

\* lines 141-150: stt_get_used (0 when the GET raises), then the quota message
QuotaExceeded(r) ==
  /\ pc[r] = "quota"
  /\ \E got \in BOOLEAN :
       Note(r, [obs[r] EXCEPT !.negUsed = redisClient /\ got /\ GetInt(quota) < 0])
  /\ \/ /\ outcome' = [outcome EXCEPT ![r] = "QuotaExceeded"]
        /\ Move(r, "done")
     \/ Handler(r, reserved_sec[r])            \* the send raises
  /\ UNCHANGED <<redisClient, quota, chanHist, userHist, reserved_sec>>

\* the record of a request after the attempts made
Attempted(o, made) ==
  [o EXCEPT !.att = IF IsApiError(made[1])
                      THEN (IF Len(made) = 1 THEN "apierr" ELSE "apierr+")
                    ELSE IF \A i \in 1..Len(made) : made[i] = "Empty"
                      THEN "empty" ELSE "other"]

\* lines 153-294: read the bytes (an empty file is refunded),
\* increment_user_usage (raises without a client), ensure_stt_compatible, the
\* histories, the forced mono transcode, then the attempts
Recognize(r) ==
  /\ pc[r] = "recog"
  /\ \/ /\ outcome' = [outcome EXCEPT ![r] = "ReadFail"]
        /\ Move(r, "rf_decr")
        /\ UNCHANGED obs
     \/ /\ Handler(r, reserved_sec[r])   \* open, usage counter or transcode raises
        /\ UNCHANGED obs
     \/ \E rec \in Recognitions :
          /\ redisClient
          /\ Note(r, Attempted(obs[r], rec.made))
          /\ \/ /\ rec.end = "raise"
                /\ Handler(r, reserved_sec[r])
             \/ /\ rec.end = "apierr"
                /\ \/ /\ outcome' = [outcome EXCEPT ![r] = "ApiError"]
                      /\ Move(r, "rf_decr")
                   \/ Handler(r, reserved_sec[r])          \* the send raises
             \/ /\ rec.end = "nospeech"
                /\ outcome' = [outcome EXCEPT ![r] = "NoSpeech"]
                /\ Move(r, "done")
             \/ /\ rec.end = "post"
                /\ UNCHANGED outcome
                /\ Goto(r, "post", rec.text, 0)
  /\ UNCHANGED <<redisClient, quota, chanHist, userHist, reserved_sec>>

\* the count one above the stored one, as an atomic increment would leave it
StoredCountAtomic(h, cur) == cur + 1

\* app_redis lines 355 and 361: hist[lang_code] = int(hist.get(lang_code, 0)) + 1,
\* from the histogram the request read
StoredCount(h, cur) == h + 1

\* lines 296-299 and _get_json: GET of the channel histogram ({} on error)
ChanHistGet(r) ==
  /\ pc[r] = "post"
  /\ \E got \in BOOLEAN :
       /\ Goto(r, "ch_set", text[r], IF got THEN chanHist ELSE 0)
       /\ Note(r, [obs[r] EXCEPT !.histCalls = @ + 1, !.histErr = @ \/ ~got])
  /\ UNCHANGED <<redisClient, quota, chanHist, userHist, reserved_sec, outcome>>

\* incr_channel_lang_hist and _set_json: SET of the incremented histogram
ChanHistSet(r) ==
  /\ pc[r] = "ch_set"
  /\ \/ /\ chanHist' = StoredCount(hist[r], chanHist)
        /\ UNCHANGED obs
     \/ /\ UNCHANGED chanHist                             \* SET raises
        /\ Note(r, [obs[r] EXCEPT !.histErr = TRUE])
  /\ Move(r, "us_get")
  /\ UNCHANGED <<redisClient, quota, userHist, reserved_sec, outcome>>

\* line 300 and _get_json: GET of the user histogram
UserHistGet(r) ==
  /\ pc[r] = "us_get"
  /\ \E got \in BOOLEAN :
       /\ Goto(r, "us_set", text[r], IF got THEN userHist ELSE 0)
       /\ Note(r, [obs[r] EXCEPT !.histCalls = @ + 1, !.histErr = @ \/ ~got])
  /\ UNCHANGED <<redisClient, quota, chanHist, userHist, reserved_sec, outcome>>

\* incr_user_lang_hist and _set_json: SET of the incremented histogram
UserHistSet(r) ==
  /\ pc[r] = "us_set"
  /\ \/ /\ userHist' = StoredCount(hist[r], userHist)
        /\ UNCHANGED obs
     \/ /\ UNCHANGED userHist                             \* SET raises
        /\ Note(r, [obs[r] EXCEPT !.histErr = TRUE])
  /\ Move(r, "send")
  /\ UNCHANGED <<redisClient, quota, chanHist, reserved_sec, outcome>>

\* lines 304-332: the transcript is sent (send_transcript may raise), the view
\* attached (failure ignored)
SendTranscript(r) ==
  /\ pc[r] = "send"
  /\ \/ /\ outcome' = [outcome EXCEPT ![r] = "Success"]
        /\ Move(r, "done")
     \/ Handler(r, reserved_sec[r])
  /\ UNCHANGED <<redisClient, quota, chanHist, userHist, reserved_sec, obs>>

\* ------------------------------------------------------------- stt_refund

\* lines 138-146: entry, DECRBY; a negative result goes on to the clamp
RefundDecr(r) ==
  /\ pc[r] = "rf_decr"
  /\ LET dec == IncrBy(quota, 0 - reserved_sec[r])
         o   == [obs[r] EXCEPT !.nRefund = @ + 1]
     IN \/ /\ Note(r, o)                           \* no client, or DECRBY raises
           /\ Move(r, RefundReturn(outcome[r]))
           /\ UNCHANGED quota
        \/ /\ redisClient
           /\ quota' = dec
           /\ Note(r, [o EXCEPT !.net = @ - reserved_sec[r], !.pre = GetInt(quota)])
           /\ Move(r, IF dec.val < 0 THEN "rf_set" ELSE "rf_ttl")
  /\ UNCHANGED <<redisClient, chanHist, userHist, reserved_sec, outcome>>

\* line 146: SET key 0
RefundSet(r) ==
  /\ pc[r] = "rf_set"
  /\ \/ /\ Move(r, RefundReturn(outcome[r]))        \* SET raises
        /\ Note(r, [obs[r] EXCEPT !.pre = 0])
        /\ UNCHANGED quota
     \/ /\ quota' = SetZero(quota)
        /\ Note(r, [obs[r] EXCEPT !.net = @ + GetInt(SetZero(quota)) - GetInt(quota)])
        /\ Move(r, "rf_ttl")
  /\ UNCHANGED <<redisClient, chanHist, userHist, reserved_sec, outcome>>

\* lines 148-149: TTL key
RefundTtl(r) ==
  /\ pc[r] = "rf_ttl"
  /\ \/ Move(r, RefundReturn(outcome[r]))           \* TTL raises
     \/ Move(r, IF Ttl(quota) < 0 THEN "rf_expire" ELSE RefundReturn(outcome[r]))
  /\ Note(r, [obs[r] EXCEPT !.pre = 0])
  /\ UNCHANGED <<redisClient, quota, chanHist, userHist, reserved_sec, outcome>>

\* line 150: EXPIRE key
RefundExpire(r) ==
  /\ pc[r] = "rf_expire"
  /\ \/ UNCHANGED quota                             \* EXPIRE raises
     \/ quota' = Expire(quota)
  /\ Move(r, RefundReturn(outcome[r]))
  /\ UNCHANGED <<redisClient, chanHist, userHist, reserved_sec, outcome, obs>>

\* the task of a request past Reserve is cancelled at one of its awaits:
\* CancelledError is not an Exception, so the except block of lines 334-350 is
\* passed over, the finally block removes the scratch file and the
\* cancellation leaves the handler
Cancel(r) ==
  /\ pc[r] \notin {"idle", "reserve", "done"}
  /\ outcome' = [outcome EXCEPT ![r] = "Cancelled"]
  /\ Move(r, "done")
  /\ Note(r, [obs[r] EXCEPT !.pre = 0])
  /\ UNCHANGED <<redisClient, quota, chanHist, userHist, reserved_sec>>

\* ---------------------------------------------------------- specification

Next ==
  \E r \in Requests :
    \/ Prepare(r) /\ UNCHANGED <<longVars, runVars, altVars, pollVars, panelVars, dayVars>>
    \/ TryReserve(r) /\ UNCHANGED <<longVars, runVars, altVars, pollVars, panelVars, dayVars>>
    \/ QuotaExceeded(r) /\ UNCHANGED <<longVars, runVars, altVars, pollVars, panelVars, dayVars>>
    \/ Recognize(r) /\ UNCHANGED <<longVars, runVars, altVars, pollVars, panelVars, dayVars>>
    \/ ChanHistGet(r) /\ UNCHANGED <<longVars, runVars, altVars, pollVars, panelVars, dayVars>>
    \/ ChanHistSet(r) /\ UNCHANGED <<longVars, runVars, altVars, pollVars, panelVars, dayVars>>
    \/ UserHistGet(r) /\ UNCHANGED <<longVars, runVars, altVars, pollVars, panelVars, dayVars>>
    \/ UserHistSet(r) /\ UNCHANGED <<longVars, runVars, altVars, pollVars, panelVars, dayVars>>
    \/ SendTranscript(r) /\ UNCHANGED <<longVars, runVars, altVars, pollVars, panelVars, dayVars>>
    \/ RefundDecr(r) /\ UNCHANGED <<longVars, runVars, altVars, pollVars, panelVars, dayVars>>
    \/ RefundSet(r) /\ UNCHANGED <<longVars, runVars, altVars, pollVars, panelVars, dayVars>>
    \/ RefundTtl(r) /\ UNCHANGED <<longVars, runVars, altVars, pollVars, panelVars, dayVars>>
    \/ RefundExpire(r) /\ UNCHANGED <<longVars, runVars, altVars, pollVars, panelVars, dayVars>>
    \/ Cancel(r) /\ UNCHANGED <<longVars, runVars, altVars, pollVars, panelVars, dayVars>>

Spec == Init /\ [][Next]_vars

\* an earlier request of the day reserved EarlierSeconds (the script made the
\* key with its expiry) and ended as a Success; two more requests arrive
EarlierSeconds == ClipSeconds

InitEarlier ==
  /\ redisClient = TRUE
  /\ quota = [exists |-> TRUE, val |-> EarlierSeconds, ttl |-> TRUE]
  /\ chanHist = 0
  /\ userHist = 0
  /\ pc = [r \in Requests |-> "idle"]
  /\ reserved_sec = [r \in Requests |-> 0]
  /\ text = [r \in Requests |-> "Empty"]
  /\ hist = [r \in Requests |-> 0]
  /\ outcome = [r \in Requests |-> "none"]
  /\ scratch = [r \in Requests |-> "none"]
  /\ obs = [r \in Requests |-> NoObs]
  /\ delete_immediately = FALSE
  /\ delete_after_seconds = 0
  /\ NoCalls
  /\ NoRun
  /\ NoPick
  /\ NoPoll
  /\ NoPanel
  /\ NoMidnight

SpecEarlier == InitEarlier /\ [][Next]_vars

\* no request other than r is under way
Idle(r) == \A o \in Requests \ {r} : pc[o] \in {"idle", "done"}

\* the requests of the user run one after another: a request takes a step only
\* while no other request is under way (no concurrent caller of the store)
NextSeq ==
  \E r \in Requests :
    \/ Idle(r) /\ Prepare(r) /\ UNCHANGED <<longVars, runVars, altVars, pollVars, panelVars, dayVars>>
    \/ Idle(r) /\ TryReserve(r) /\ UNCHANGED <<longVars, runVars, altVars, pollVars, panelVars, dayVars>>
    \/ Idle(r) /\ QuotaExceeded(r) /\ UNCHANGED <<longVars, runVars, altVars, pollVars, panelVars, dayVars>>
    \/ Idle(r) /\ Recognize(r) /\ UNCHANGED <<longVars, runVars, altVars, pollVars, panelVars, dayVars>>
    \/ Idle(r) /\ ChanHistGet(r) /\ UNCHANGED <<longVars, runVars, altVars, pollVars, panelVars, dayVars>>
    \/ Idle(r) /\ ChanHistSet(r) /\ UNCHANGED <<longVars, runVars, altVars, pollVars, panelVars, dayVars>>
    \/ Idle(r) /\ UserHistGet(r) /\ UNCHANGED <<longVars, runVars, altVars, pollVars, panelVars, dayVars>>
    \/ Idle(r) /\ UserHistSet(r) /\ UNCHANGED <<longVars, runVars, altVars, pollVars, panelVars, dayVars>>
    \/ Idle(r) /\ SendTranscript(r) /\ UNCHANGED <<longVars, runVars, altVars, pollVars, panelVars, dayVars>>
    \/ Idle(r) /\ RefundDecr(r) /\ UNCHANGED <<longVars, runVars, altVars, pollVars, panelVars, dayVars>>
    \/ Idle(r) /\ RefundSet(r) /\ UNCHANGED <<longVars, runVars, altVars, pollVars, panelVars, dayVars>>
    \/ Idle(r) /\ RefundTtl(r) /\ UNCHANGED <<longVars, runVars, altVars, pollVars, panelVars, dayVars>>
    \/ Idle(r) /\ RefundExpire(r) /\ UNCHANGED <<longVars, runVars, altVars, pollVars, panelVars, dayVars>>
    \/ Idle(r) /\ Cancel(r) /\ UNCHANGED <<longVars, runVars, altVars, pollVars, panelVars, dayVars>>

SpecSeq == Init /\ [][NextSeq]_vars

\* local midnight passes while a request that has its reservation is about to
\* recognise: _local_datestr returns the next date, so _key_stt_seconds names
\* a key that does not exist yet
Midnight ==
  /\ today < MaxDays
  /\ \E r \in Requests : pc[r] = "recog"
  /\ today' = today + 1
  /\ yesterday' = quota
  /\ quota' = NoKey
  /\ UNCHANGED <<redisClient, chanHist, userHist, pc, reserved_sec, text, hist,
                 outcome, scratch, obs, reservedOn>>

\* stt_try_reserve, with the date of line 116 noted
ReserveOn(r) ==
  /\ TryReserve(r)
  /\ reservedOn' = [reservedOn EXCEPT ![r] = today]
  /\ UNCHANGED <<today, yesterday>>

\* the requests of the user run one after another while the days pass
NextMidnight ==
  \/ Midnight /\ UNCHANGED <<longVars, runVars, altVars, pollVars, panelVars>>
  \/ \E r \in Requests :
       \/ Idle(r) /\ Prepare(r) /\ UNCHANGED <<longVars, runVars, altVars, pollVars, panelVars, dayVars>>
       \/ Idle(r) /\ ReserveOn(r) /\ UNCHANGED <<longVars, runVars, altVars, pollVars, panelVars>>
       \/ Idle(r) /\ QuotaExceeded(r) /\ UNCHANGED <<longVars, runVars, altVars, pollVars, panelVars, dayVars>>
       \/ Idle(r) /\ Recognize(r) /\ UNCHANGED <<longVars, runVars, altVars, pollVars, panelVars, dayVars>>
       \/ Idle(r) /\ ChanHistGet(r) /\ UNCHANGED <<longVars, runVars, altVars, pollVars, panelVars, dayVars>>
       \/ Idle(r) /\ ChanHistSet(r) /\ UNCHANGED <<longVars, runVars, altVars, pollVars, panelVars, dayVars>>
       \/ Idle(r) /\ UserHistGet(r) /\ UNCHANGED <<longVars, runVars, altVars, pollVars, panelVars, dayVars>>
       \/ Idle(r) /\ UserHistSet(r) /\ UNCHANGED <<longVars, runVars, altVars, pollVars, panelVars, dayVars>>
       \/ Idle(r) /\ SendTranscript(r) /\ UNCHANGED <<longVars, runVars, altVars, pollVars, panelVars, dayVars>>
       \/ Idle(r) /\ RefundDecr(r) /\ UNCHANGED <<longVars, runVars, altVars, pollVars, panelVars, dayVars>>
       \/ Idle(r) /\ RefundSet(r) /\ UNCHANGED <<longVars, runVars, altVars, pollVars, panelVars, dayVars>>
       \/ Idle(r) /\ RefundTtl(r) /\ UNCHANGED <<longVars, runVars, altVars, pollVars, panelVars, dayVars>>
       \/ Idle(r) /\ RefundExpire(r) /\ UNCHANGED <<longVars, runVars, altVars, pollVars, panelVars, dayVars>>
       \/ Idle(r) /\ Cancel(r) /\ UNCHANGED <<longVars, runVars, altVars, pollVars, panelVars, dayVars>>

InitMidnight ==
  /\ redisClient = TRUE
  /\ NoRequests
  /\ delete_immediately = FALSE
  /\ delete_after_seconds = 0
  /\ NoCalls
  /\ NoRun
  /\ NoPick
  /\ NoPoll
  /\ NoPanel
  /\ NoMidnight

SpecMidnight == InitMidnight /\ [][NextMidnight]_vars

\* ------------------------------------------------------ stt_google_async.py

\* lines 322-329: a failed start deletes only under the immediate policy
StartErrorCleanup(imm, delay) == IF imm THEN "delete" ELSE "none"

\* lines 333-340 and 356-372: an unnamed operation or a failed poll follows
\* the policy
PolicyCleanup(imm, delay) ==
  IF imm THEN "delete" ELSE IF delay > 0 THEN "schedule" ELSE "none"

\* lines 343-347: with poll disabled only the delayed deletion is possible
NoPollCleanup(imm, delay) == IF delay > 0 THEN "schedule" ELSE "none"

\* lines 378-385: after the join
FinalCleanup(imm, delay, poll) ==
  IF imm /\ poll THEN "delete" ELSE IF delay > 0 THEN "schedule" ELSE "none"

\* the call returns res from site after the cleanup `what`: _gcs_delete_object
\* may raise (swallowed), asyncio.create_task starts _delete_later
LongReturn(c, res, site, what) ==
  /\ \E deleted \in BOOLEAN :
       gcs' = [gcs EXCEPT ![c] = IF what = "delete" /\ deleted THEN "deleted" ELSE @]
  /\ delTask' = [delTask EXCEPT ![c] = IF what = "schedule" THEN "sleeping" ELSE @]
  /\ call' = [call EXCEPT ![c] = [pc |-> "ret", poll |-> call[c].poll, waited |-> 0,
                                   res |-> res, site |-> site,
                                   tried |-> (what = "delete")]]

\* lines 263-297: no bucket or a failed upload returns an error text; otherwise
\* the object is stored
Upload(c) ==
  /\ call[c].pc = "idle"
  /\ \/ /\ call' = [call EXCEPT ![c] = [@ EXCEPT !.pc = "ret", !.res = "ErrText",
                                                 !.site = "upload"]]
        /\ UNCHANGED <<gcs, delTask>>
     \/ \E p \in BOOLEAN :
          /\ gcs' = [gcs EXCEPT ![c] = "stored"]
          /\ call' = [call EXCEPT ![c] = [@ EXCEPT !.pc = "start", !.poll = p]]
          /\ UNCHANGED delTask
  /\ UNCHANGED <<delete_immediately, delete_after_seconds>>

\* lines 306-347: _speech_longrunning_start raises, or returns an operation
\* without a name, or a named one (returned as it is when poll is off)
Start(c) ==
  /\ call[c].pc = "start"
  /\ \/ LongReturn(c, "ErrText", "start_error",
                   StartErrorCleanup(delete_immediately, delete_after_seconds))
     \/ LongReturn(c, "ErrText", "no_name",
                   PolicyCleanup(delete_immediately, delete_after_seconds))
     \/ /\ ~call[c].poll
        /\ LongReturn(c, "Started", "no_poll",
                      NoPollCleanup(delete_immediately, delete_after_seconds))
     \/ /\ call[c].poll
        /\ call' = [call EXCEPT ![c] = [@ EXCEPT !.pc = "poll"]]
        /\ UNCHANGED <<gcs, delTask>>
  /\ UNCHANGED <<delete_immediately, delete_after_seconds>>

\* lines 349-376 and _speech_poll_operation: one GET of the operation per step;
\* the loop gives up after MaxPolls polls with an operation carrying an error
Poll(c) ==
  /\ call[c].pc = "poll"
  /\ \/ /\ call[c].waited < MaxPolls                      \* the GET raises
        /\ LongReturn(c, "ErrText", "poll_error",
                      PolicyCleanup(delete_immediately, delete_after_seconds))
     \/ /\ call[c].waited < MaxPolls                      \* done
        /\ \E k \in {"Text", "Empty", "ErrEmpty"} :
             call' = [call EXCEPT ![c] = [@ EXCEPT !.pc = "cleanup", !.res = k]]
        /\ UNCHANGED <<gcs, delTask>>
     \/ /\ call[c].waited < MaxPolls                      \* not done: sleep
        /\ call' = [call EXCEPT ![c] = [@ EXCEPT !.waited = @ + 1]]
        /\ UNCHANGED <<gcs, delTask>>
     \/ /\ call[c].waited >= MaxPolls                     \* timeout
        /\ call' = [call EXCEPT ![c] = [@ EXCEPT !.pc = "cleanup", !.res = "ErrEmpty"]]
        /\ UNCHANGED <<gcs, delTask>>
  /\ UNCHANGED <<delete_immediately, delete_after_seconds>>

\* lines 378-387: cleanup per policy, return (text, op)
Cleanup(c) ==
  /\ call[c].pc = "cleanup"
  /\ LongReturn(c, call[c].res, "joined",
                FinalCleanup(delete_immediately, delete_after_seconds, call[c].poll))
  /\ UNCHANGED <<delete_immediately, delete_after_seconds>>

\* _delete_later: after the sleep the object is deleted, or the failure logged
DeleteLater(c) ==
  /\ delTask[c] = "sleeping"
  /\ delTask' = [delTask EXCEPT ![c] = "gone"]
  /\ \/ gcs' = [gcs EXCEPT ![c] = "deleted"]
     \/ UNCHANGED gcs
  /\ UNCHANGED <<delete_immediately, delete_after_seconds, call>>

\* the task is cancelled while the start request or a poll is awaited:
\* CancelledError passes the except Exception blocks of lines 322 and 365
CancelLong(c) ==
  /\ call[c].pc \in {"start", "poll"}
  /\ call' = [call EXCEPT ![c] = [@ EXCEPT !.pc = "cancelled", !.waited = 0]]
  /\ UNCHANGED <<delete_immediately, delete_after_seconds, gcs, delTask>>

InitLong ==
  /\ redisClient = TRUE
  /\ NoRequests
  /\ delete_immediately \in BOOLEAN
  /\ delete_after_seconds \in {0, DelaySeconds}
  /\ NoCalls
  /\ NoRun
  /\ NoPick
  /\ NoPoll
  /\ NoPanel
  /\ NoMidnight

NextLong ==
  \E c \in Calls :
    \/ Upload(c) /\ UNCHANGED <<quotaVars, runVars, altVars, pollVars, panelVars, dayVars>>
    \/ Start(c) /\ UNCHANGED <<quotaVars, runVars, altVars, pollVars, panelVars, dayVars>>
    \/ Poll(c) /\ UNCHANGED <<quotaVars, runVars, altVars, pollVars, panelVars, dayVars>>
    \/ Cleanup(c) /\ UNCHANGED <<quotaVars, runVars, altVars, pollVars, panelVars, dayVars>>
    \/ DeleteLater(c) /\ UNCHANGED <<quotaVars, runVars, altVars, pollVars, panelVars, dayVars>>
    \/ CancelLong(c) /\ UNCHANGED <<quotaVars, runVars, altVars, pollVars, panelVars, dayVars>>

SpecLong == InitLong /\ [][NextLong]_vars

\* ------------------------------------------- the attempts and their requests

\* code.split("-")[0].lower() for the codes of the model
LangBase(code) ==
  CASE code = "th-TH" -> "th"
    [] code = "en-US" -> "en"
    [] code = "ja-JP" -> "ja"
    [] code = "ko-KR" -> "ko"
    [] code = "vi-VN" -> "vi"

\* stt_google_sync._norm_lang / stt_google_async._norm_lang: the base looked up
\* in the module's table
NormLang(code) ==
  CASE LangBase(code) = "th" -> "th-TH"
    [] LangBase(code) = "en" -> "en-US"
    [] LangBase(code) = "ja" -> "ja-JP"
    [] LangBase(code) = "ko" -> "ko-KR"
    [] LangBase(code) = "vi" -> "vi-VN"

\* _norm_alt_codes: every alternate normalized, duplicates dropped
NormAlts(alts) == {NormLang(x) : x \in alts}

\* stt_google_sync lines 232-233, 259-260, 301-302: en-US is put in front of the
\* alternates of a Thai, Khmer or Burmese request on its way to long-running
AddEnglish(lang, alts) ==
  IF LangBase(lang) \in {"th", "km", "my"} /\ "en-US" \notin alts
    THEN {"en-US"} \cup alts ELSE alts

\* "word in ct" for the content types and the words of the model
Contains(ct, word) ==
  CASE word = "webm" -> ct \in {"audio/webm", "audio/webm;codecs=opus"}
    [] word = "opus" -> ct = "audio/webm;codecs=opus"
    [] word = "ogg" -> ct = "audio/ogg"
    [] word = "mpeg" -> ct = "audio/mpeg"
    [] word = "wav" -> ct = "audio/wav"
    [] word = "flac" -> ct = "audio/flac"
    [] word = "audio/mp4" -> ct = "audio/mp4"
    [] word = "video/mp4" -> ct = "video/mp4"
    [] word = "audio/aac" -> ct = "audio/aac"

\* _mime_to_encoding(mime, filename): the content type is searched for the
\* family name, then the extension
Encoding(mime, ext) ==
  IF Contains(mime, "webm") \/ ext = ".webm" THEN "WEBM_OPUS"
  ELSE IF Contains(mime, "ogg") \/ ext \in {".ogg", ".opus"} THEN "OGG_OPUS"
  ELSE IF Contains(mime, "mpeg") \/ ext = ".mp3" THEN "MP3"
  ELSE IF Contains(mime, "flac") \/ ext = ".flac" THEN "FLAC"
  ELSE IF Contains(mime, "wav") \/ ext = ".wav" THEN "LINEAR16"
  ELSE "ENCODING_UNSPECIFIED"

\* _should_force_longrun
ShouldForceLongrun(encoding, size) ==
  IF encoding \in {"MP3", "OGG_OPUS", "WEBM_OPUS", "ENCODING_UNSPECIFIED"}
    THEN size > FORCE_LONG_BYTES
    ELSE size > SYNC_MAX_BYTES

\* need_wav from the extension alone
NeedWavByExt(ext, ct) == ext \in {".m4a", ".mp4", ".aac", ".webm"}

\* ensure_stt_compatible: need_wav
NeedWav(ext, ct) ==
  \/ ext \in {".m4a", ".mp4", ".aac"}
  \/ Contains(ct, "audio/mp4") \/ Contains(ct, "video/mp4") \/ Contains(ct, "audio/aac")
  \/ ext = ".webm" /\ ~Contains(ct, "opus")

\* the ceiling taken as inclusive
UseLongFrom(size) == size >= SYNC_MAX_BYTES

\* events.py lines 183 and 276
UseLong(size) == size > SYNC_MAX_BYTES

\* the second pass allowed whatever Normalize did
RetranscodeAlways(dt) == TRUE

\* events.py line 266: the second pass runs only when Normalize did not transcode
RetranscodeAllowed(dt) == ~dt

\* what a call of _run_once came to: the result kind, the recognition requests
\* it put on the wire, whether the synchronous API refused the blob for its
\* size (rej) and whether transcribe_long_audio_bytes was called (long)
Outcome(k, reqs, rej, long) == [res |-> k, reqs |-> reqs, rej |-> rej, long |-> long]

\* stt_google_sync _guess_ext: the extension of the name, else one for the
\* content type
GuessExt(ext, mime) ==
  IF ext # "" THEN ext
  ELSE IF Contains(mime, "mpeg") THEN ".mp3"
  ELSE IF Contains(mime, "ogg") THEN ".ogg"
  ELSE IF Contains(mime, "webm") THEN ".webm"
  ELSE IF Contains(mime, "wav") THEN ".wav"
  ELSE IF Contains(mime, "flac") THEN ".flac"
  ELSE IF Contains(mime, "audio/mp4") \/ Contains(mime, "video/mp4") THEN ".m4a"
  ELSE ".wav"

\* the encoding of the request's config: the sync recognizer is given the
\* attachment's name (events.py line 219, stt_google_sync line 246); the
\* long-running one the extension of filename2 (events.py line 204) or, when
\* stt_transcribe_bytes went long, _guess_ext of the attachment's name
EncodingOf(api) ==
  IF api = "sync" THEN Encoding(content_type2, filename)
  ELSE IF use_long
    THEN Encoding(content_type2, IF filename2 = "" THEN ".wav" ELSE filename2)
  ELSE Encoding(content_type2, GuessExt(filename, content_type2))

\* a recognition request of attempt n, with the size, name and content type of
\* the audio sent, the use_long it was sent under and the encoding of its config
Request(n, api, lang, alts) ==
  [n |-> n, api |-> api, lang |-> lang, alts |-> alts, size |-> audio_bytes,
   name |-> filename2, ctype |-> content_type2, picked |-> use_long,
   enc |-> EncodingOf(api)]

\* transcribe_long_audio_bytes as attempt n sees it: an error text without any
\* recognition request (no bucket, failed upload) or the long-running request
\* and what came of it
LongCall(n, lang, alts) ==
  {Outcome("ErrText", {}, FALSE, TRUE)} \cup
  (IF bucket
     THEN {Outcome(k, {Request(n, "long", NormLang(lang), alts)}, FALSE, TRUE) :
           k \in {"Text", "Empty", "ErrText", "ErrEmpty"}}
     ELSE {})

\* a refused blob always answered with the error text
SizeRejectedAsError(b, longrun, reqs) == {Outcome("ErrText", reqs, TRUE, FALSE)}

\* stt_google_sync lines 225-243 and 297-312: a blob refused for its size goes
\* long-running when a bucket is known, else the error text is returned
SizeRejected(b, longrun, reqs) ==
  IF b THEN {Outcome(o.res, o.reqs \cup reqs, TRUE, o.long) : o \in longrun}
       ELSE {Outcome("ErrText", reqs, TRUE, FALSE)}

\* stt_transcribe_bytes lines 222-328 as attempt n sees it (every content type
\* of the model is non-empty, so _guess_mime_by_ext returns it)
SyncCall(n, lang, alts) ==
  LET language_code == NormLang(lang)
      alt_codes == NormAlts(alts)
      encoding == Encoding(content_type2, filename)
      req == Request(n, "sync", language_code, alt_codes)
      longrun == LongCall(n, language_code, AddEnglish(language_code, alt_codes))
  IN IF audio_bytes > SYNC_MAX_BYTES
       THEN SizeRejected(bucket, longrun, {})
     ELSE IF bucket /\ ShouldForceLongrun(encoding, audio_bytes)
       THEN longrun
     ELSE {Outcome(k, {req}, FALSE, FALSE) : k \in {"Text", "Empty", "ErrText", "Timeout"}}
          \cup SizeRejected(bucket, longrun, {req})   \* HTTP 400, sync input too long

\* _run_once(alts), lines 200-235; the call may also raise
RunOnce(n, alts) ==
  {Outcome("Raise", {}, FALSE, FALSE)} \cup
  (IF use_long THEN LongCall(n, base_lang_code, alts)
               ELSE SyncCall(n, base_lang_code, alts))

\* the attempts are over
End(e, res) ==
  /\ at' = "end"
  /\ ending' = e
  /\ result' = res

\* attempt of kind k returned o
Ran(k, o) ==
  /\ attempts' = Append(attempts, [kind |-> k, res |-> o.res, rej |-> o.rej,
                                   long |-> o.long])
  /\ sent' = sent \cup o.reqs

\* line 165, ensure_stt_compatible: transcode when needed (it may raise)
Normalize ==
  /\ at = "normalize"
  /\ IF NeedWav(filename, content_type)
       THEN \/ /\ End("raise", "Empty")
               /\ failed' = failed \cup {"normalize"}
               /\ UNCHANGED <<audio_bytes, filename2, content_type2, did_trans>>
            \/ \E size \in Sizes :
                 /\ audio_bytes' = size
                 /\ filename2' = ".wav"
                 /\ content_type2' = "audio/wav"
                 /\ did_trans' = TRUE
                 /\ at' = "pick"
                 /\ UNCHANGED <<ending, result, failed>>
       ELSE /\ at' = "pick"
            /\ audio_bytes' = raw_bytes
            /\ filename2' = filename
            /\ content_type2' = content_type
            /\ did_trans' = FALSE
            /\ UNCHANGED <<ending, result, failed>>
  /\ UNCHANGED <<base_lang_code, alt_smart, bucket, filename, content_type, raw_bytes,
                 use_long, retranscoded, attempts, sent>>

\* lines 183-198: the backend from the size; long-running audio is transcoded
\* to mono (a failure is ignored)
PickBackend ==
  /\ at = "pick"
  /\ use_long' = UseLong(audio_bytes)
  /\ IF UseLong(audio_bytes)
       THEN \/ \E size \in Sizes :
                 /\ audio_bytes' = size
                 /\ filename2' = ".wav"
                 /\ content_type2' = "audio/wav"
                 /\ UNCHANGED failed
            \/ /\ failed' = failed \cup {"mono"}
               /\ UNCHANGED <<audio_bytes, filename2, content_type2>>
       ELSE UNCHANGED <<audio_bytes, filename2, content_type2, failed>>
  /\ at' = "a1"
  /\ UNCHANGED <<base_lang_code, alt_smart, bucket, filename, content_type, raw_bytes,
                 did_trans, retranscoded, ending, result, attempts, sent>>

\* lines 237-256: strict attempt; an API error ends the request
Attempt1 ==
  /\ at = "a1"
  /\ \E o \in RunOnce(1, {}) :
       /\ Ran("strict", o)
       /\ IF o.res = "Raise" THEN End("raise", "Empty")
          ELSE IF IsApiError(o.res) THEN End("apierr", o.res)
          ELSE IF HasText(o.res) THEN End("post", o.res)
          ELSE at' = "a2" /\ result' = o.res /\ UNCHANGED ending
  /\ UNCHANGED <<base_lang_code, alt_smart, bucket, filename, content_type, raw_bytes,
                 audio_bytes, filename2, content_type2, use_long, did_trans,
                 retranscoded, failed>>

\* lines 258-266: attempt with the alternates; its text is kept when non-empty
Attempt2 ==
  /\ at = "a2"
  /\ \E o \in RunOnce(2, alt_smart) :
       /\ Ran("alts", o)
       /\ IF o.res = "Raise" THEN End("raise", "Empty")
          ELSE IF HasText(o.res) THEN End("post", o.res)
          ELSE IF RetranscodeAllowed(did_trans)
            THEN at' = "retrans" /\ UNCHANGED <<ending, result>>
          ELSE End(EmptyEnd, result)
  /\ UNCHANGED <<base_lang_code, alt_smart, bucket, filename, content_type, raw_bytes,
                 audio_bytes, filename2, content_type2, use_long, did_trans,
                 retranscoded, failed>>

\* lines 267-280: the original bytes transcoded again, the backend picked again;
\* an exception ends the pass
Retranscode ==
  /\ at = "retrans"
  /\ \/ /\ End(EmptyEnd, result)
        /\ failed' = failed \cup {"retranscode"}
        /\ UNCHANGED <<audio_bytes, filename2, content_type2, use_long, retranscoded>>
     \/ \E size \in Sizes :
          /\ audio_bytes' = size
          /\ filename2' = ".wav"
          /\ content_type2' = "audio/wav"
          /\ use_long' = UseLong(size)
          /\ retranscoded' = TRUE
          /\ at' = "a3"
          /\ UNCHANGED <<ending, result, failed>>
  /\ UNCHANGED <<base_lang_code, alt_smart, bucket, filename, content_type, raw_bytes,
                 did_trans, attempts, sent>>

\* lines 282-283: strict attempt on the new bytes
Attempt3 ==
  /\ at = "a3"
  /\ \E o \in RunOnce(3, {}) :
       /\ Ran("strict", o)
       /\ IF o.res = "Raise" THEN End(EmptyEnd, result)
          ELSE IF HasText(o.res) THEN End("post", o.res)
          ELSE at' = "a4" /\ result' = o.res /\ UNCHANGED ending
  /\ UNCHANGED <<base_lang_code, alt_smart, bucket, filename, content_type, raw_bytes,
                 audio_bytes, filename2, content_type2, use_long, did_trans,
                 retranscoded, failed>>

\* lines 284-294: attempt with the alternates on the new bytes
Attempt4 ==
  /\ at = "a4"
  /\ \E o \in RunOnce(4, alt_smart) :
       /\ Ran("alts", o)
       /\ IF o.res # "Raise" /\ HasText(o.res) THEN End("post", o.res)
          ELSE End(EmptyEnd, result)
  /\ UNCHANGED <<base_lang_code, alt_smart, bucket, filename, content_type, raw_bytes,
                 audio_bytes, filename2, content_type2, use_long, did_trans,
                 retranscoded, failed>>

InitRun ==
  /\ redisClient = TRUE
  /\ NoRequests
  /\ delete_immediately = FALSE
  /\ delete_after_seconds = 0
  /\ NoCalls
  /\ NoPick
  /\ NoPoll
  /\ NoPanel
  /\ NoMidnight
  /\ \E f \in Files, size \in Sizes, lang \in Primaries, b \in BOOLEAN :
       \E alts \in {S \in SUBSET (AltPool \ {lang}) : Cardinality(S) = MAX_ALTS} :
         NoAttempts(f, size, lang, alts, b)

NextRun ==
  \/ Normalize /\ UNCHANGED <<quotaVars, longVars, altVars, pollVars, panelVars, dayVars>>
  \/ PickBackend /\ UNCHANGED <<quotaVars, longVars, altVars, pollVars, panelVars, dayVars>>
  \/ Attempt1 /\ UNCHANGED <<quotaVars, longVars, altVars, pollVars, panelVars, dayVars>>
  \/ Attempt2 /\ UNCHANGED <<quotaVars, longVars, altVars, pollVars, panelVars, dayVars>>
  \/ Retranscode /\ UNCHANGED <<quotaVars, longVars, altVars, pollVars, panelVars, dayVars>>
  \/ Attempt3 /\ UNCHANGED <<quotaVars, longVars, altVars, pollVars, panelVars, dayVars>>
  \/ Attempt4 /\ UNCHANGED <<quotaVars, longVars, altVars, pollVars, panelVars, dayVars>>

SpecRun == InitRun /\ [][NextRun]_vars

\* ------------------------------------------------ pick_alternative_langs

\* _seed_scores, in tenths
SeedScores == [c \in AltPool |-> IF c = "en-US" THEN 4 ELSE IF c = "th-TH" THEN 0 ELSE 1]

\* detect_lang_hints_from_context when the context shows the script of one
\* language of the pool ("none": no script found), in tenths
ContextHints(script) ==
  [c \in AltPool |-> SeedScores[c] + (IF c = script THEN 20 ELSE 0)]

\* hist.items() for a code: its count, 0 without an entry
Count(h, c) == IF c \in DOMAIN h THEN h[c] ELSE 0

\* lines 179-190: the weight of every pool code, in tenths
Weights(ch, us, ctx) ==
  [c \in AltPool |-> 8 * Count(ch, c) + 14 * Count(us, c) + Count(ctx, c)]

\* the list without its element at index i
Without(s, i) == SubSeq(s, 1, i - 1) \o SubSeq(s, i + 1, Len(s))

\* sorted(..., reverse=True) of Python: stable, so among equal weights the
\* earlier code stays first
RECURSIVE SortedReverse(_, _)
SortedReverse(s, w) ==
  IF s = <<>> THEN <<>>
  ELSE LET m == CHOOSE i \in DOMAIN s :
                  /\ \A j \in DOMAIN s : w[s[j]] <= w[s[i]]
                  /\ \A j \in 1..(i - 1) : w[s[j]] < w[s[i]]
       IN <<s[m]>> \o SortedReverse(Without(s, m), w)

\* the pool left in its own order
Unranked(pool, base, w) == SelectSeq(pool, LAMBDA c : c # base)

\* lines 197-200: weights.pop(base_lang), then ranked
Ranked(pool, base, w) == SortedReverse(SelectSeq(pool, LAMBDA c : c # base), w)

\* s[:n]
Take(s, n) == SubSeq(s, 1, IF n < Len(s) THEN n ELSE Len(s))

\* lines 204-208: the loop that fills the list from the pool, from index i on
RECURSIVE TopUp(_, _, _, _, _)
TopUp(pool, base, n, picks, i) ==
  IF i > Len(pool) THEN picks
  ELSE LET lang == pool[i]
           more == IF lang # base /\ \A k \in DOMAIN picks : picks[k] # lang
                     THEN Append(picks, lang) ELSE picks
       IN IF Len(more) >= n THEN more ELSE TopUp(pool, base, n, more, i + 1)

\* pick_alternative_langs (damp_jp_when_uncertain left at its default)
PickAlternativeLangs(pool, base, n, ch, us, ctx) ==
  LET w == Weights(ch, us, ctx)
      ranked == Ranked(pool, base, w)
      top == Take(SelectSeq(ranked, LAMBDA c : w[c] > 0), n)
      filled == IF Len(top) < n THEN TopUp(pool, base, n, top, 1) ELSE top
  IN Take(filled, n)

\* the call
Pick ==
  /\ ~picked
  /\ picked_alts' = PickAlternativeLangs(FALLBACK_ALTS_ORDER, base_lang, max_alts,
                                         channel_hist, user_hist, context_bias)
  /\ picked' = TRUE
  /\ UNCHANGED <<base_lang, max_alts, channel_hist, user_hist, context_bias>>

InitAlts ==
  /\ redisClient = TRUE
  /\ NoRequests
  /\ delete_immediately = FALSE
  /\ delete_after_seconds = 0
  /\ NoCalls
  /\ NoRun
  /\ NoPoll
  /\ NoPanel
  /\ NoMidnight
  /\ base_lang \in Primaries
  /\ max_alts \in 0..MaxAltsArg
  /\ channel_hist \in [ChannelCodes -> 0..MaxCount]
  /\ user_hist \in [UserCodes -> 0..MaxCount]
  /\ context_bias \in {[c \in AltPool |-> 0]} \cup
                      {ContextHints(x) : x \in (AltPool \ {"en-US"}) \cup {"none"}}
  /\ picked_alts = <<>>
  /\ picked = FALSE

NextAlts ==
  \/ Pick /\ UNCHANGED <<quotaVars, longVars, runVars, pollVars, panelVars, dayVars>>

SpecAlts == InitAlts /\ [][NextAlts]_vars

\* ------------------------------------------------- _speech_poll_operation

\* line 216, waited += interval_sec in IEEE double arithmetic: the sum of n
\* copies of 0.1 falls below the double n/10 for n = 8..11, the sum of three
\* copies of 0.3 falls below 0.9; the sums of 0.5 and of 1.0 are exact
FloatSumBelow(iv, n) == \/ iv = 1 /\ n \in 8..11
                        \/ iv = 3 /\ n = 3

\* the loop condition taken as waited <= max_wait_sec
WaitedLessOrEqual(iv, n, maxw) == n * iv <= maxw

\* line 209, waited < max_wait_sec after n additions: an inexact sum differs
\* from the exact one by far less than a tenth
WaitedLess(iv, n, maxw) ==
  \/ n * iv < maxw
  \/ n * iv = maxw /\ FloatSumBelow(iv, n)

\* lines 220-235 and 376-387: the text joined from the operation and the raw
\* result returned with it, as a result kind
JoinTranscript(o) ==
  IF o = "timeout" THEN {"ErrEmpty"}     \* not done: "", raw carries "error"
  ELSE {"Text", "Empty", "ErrEmpty"}     \* done, with results, none, or an error

\* lines 209-216: one GET of the operation; it raises (lines 354-373 return
\* the error text), answers done, or is followed by the sleep
PollGet ==
  /\ op = "none"
  /\ WaitedLess(interval_sec, waited, max_wait_sec)
  /\ queries' = queries + 1
  /\ \/ /\ op' = "raise"
        /\ joined' = "ErrText"
        /\ UNCHANGED waited
     \/ /\ op' = "done"
        /\ joined' \in JoinTranscript("done")
        /\ UNCHANGED waited
     \/ /\ waited' = waited + 1
        /\ UNCHANGED <<op, joined>>
  /\ UNCHANGED <<max_wait_sec, interval_sec>>

\* line 218: the loop is left without a done response
PollTimeout ==
  /\ op = "none"
  /\ ~WaitedLess(interval_sec, waited, max_wait_sec)
  /\ op' = "timeout"
  /\ joined' \in JoinTranscript("timeout")
  /\ UNCHANGED <<max_wait_sec, interval_sec, waited, queries>>

InitPoll ==
  /\ redisClient = TRUE
  /\ NoRequests
  /\ delete_immediately = FALSE
  /\ delete_after_seconds = 0
  /\ NoCalls
  /\ NoRun
  /\ NoPick
  /\ NoPanel
  /\ NoMidnight
  /\ max_wait_sec \in 0..MaxWaitTenths
  /\ interval_sec \in Intervals
  /\ waited = 0
  /\ queries = 0
  /\ op = "none"
  /\ joined = "none"

NextPoll ==
  \/ PollGet /\ UNCHANGED <<quotaVars, longVars, runVars, altVars, panelVars, dayVars>>
  \/ PollTimeout /\ UNCHANGED <<quotaVars, longVars, runVars, altVars, panelVars, dayVars>>

\* the coroutine is resumed after every GET and every sleep
SpecPoll == InitPoll /\ [][NextPoll]_vars /\ WF_vars(NextPoll)

\* ---------------------------------------------------- STTLanguagePanel

\* _to_stt_code, lines 54-65, on the ui codes of the model
ToSttCode(c) ==
  CASE c = "th" -> "th-TH"
    [] c = "kh" -> "km-KH"
    [] c = "ja-JP" -> "ja-JP"      \* by its base "ja"
    [] OTHER -> "en-US"

\* the flag left as the callback found it
ProcessingKept(p) == p

\* line 167: self.processing = True
ProcessingSet(p) == TRUE

At(i, p) == clicks' = [clicks EXCEPT ![i].pc = p]

\* lines 74-80, 93-100 and 167: a button or dropdown callback starts; nothing
\* is awaited between the test of view.processing and the assignment that
\* opens _choose, so the test and the assignment are one step
Callback(i) ==
  /\ clicks[i].pc = "none"
  /\ \E c \in UiCodes :
       IF processing
         THEN /\ clicks' = [clicks EXCEPT ![i] = [pc |-> "ack", code |-> c]]
              /\ UNCHANGED processing
         ELSE /\ clicks' = [clicks EXCEPT ![i] = [pc |-> "defer", code |-> c]]
              /\ processing' = ProcessingSet(processing)
  /\ UNCHANGED <<calls, reserves, stopped, disabled>>

\* lines 77-79, 96-98: the interaction is acknowledged and the callback returns
Ack(i) ==
  /\ clicks[i].pc = "ack"
  /\ At(i, "done")
  /\ UNCHANGED <<processing, calls, reserves, stopped, disabled>>

\* lines 170-174: defer, exceptions swallowed
Defer(i) ==
  /\ clicks[i].pc = "defer"
  /\ At(i, "delete")
  /\ UNCHANGED <<processing, calls, reserves, stopped, disabled>>

\* lines 177-181: the picker message is deleted, or the delete raises
Delete(i) ==
  /\ clicks[i].pc = "delete"
  /\ \/ At(i, "invoke")
     \/ At(i, "edit")
  /\ UNCHANGED <<processing, calls, reserves, stopped, disabled>>

\* lines 183-190: the buttons are disabled and the message edited (the edit
\* may raise)
Edit(i) ==
  /\ clicks[i].pc = "edit"
  /\ At(i, "invoke")
  /\ disabled' = TRUE
  /\ UNCHANGED <<processing, calls, reserves, stopped>>

\* lines 193-195: on_choose_lang is called with the STT code
Invoke(i) ==
  /\ clicks[i].pc = "invoke"
  /\ calls' = Append(calls, ToSttCode(clicks[i].code))
  /\ At(i, "handler")
  /\ UNCHANGED <<processing, reserves, stopped, disabled>>

\* events.py lines 104-140, _run_stt_with_lang: it reaches its one call of
\* stt_try_reserve, or ends before it
Transcribe(i) ==
  /\ clicks[i].pc = "handler"
  /\ \/ reserves' = reserves + 1
     \/ UNCHANGED reserves
  /\ At(i, "stop")
  /\ UNCHANGED <<processing, calls, stopped, disabled>>

\* lines 196-197: finally self.stop()
Stop(i) ==
  /\ clicks[i].pc = "stop"
  /\ stopped' = TRUE
  /\ At(i, "done")
  /\ UNCHANGED <<processing, calls, reserves, disabled>>

InitPanel ==
  /\ redisClient = TRUE
  /\ NoRequests
  /\ delete_immediately = FALSE
  /\ delete_after_seconds = 0
  /\ NoCalls
  /\ NoRun
  /\ NoPick
  /\ NoPoll
  /\ NoPanel
  /\ NoMidnight

NextPanel ==
  \E i \in Interactions :
    \/ Callback(i) /\ UNCHANGED <<quotaVars, longVars, runVars, altVars, pollVars, dayVars>>
    \/ Ack(i) /\ UNCHANGED <<quotaVars, longVars, runVars, altVars, pollVars, dayVars>>
    \/ Defer(i) /\ UNCHANGED <<quotaVars, longVars, runVars, altVars, pollVars, dayVars>>
    \/ Delete(i) /\ UNCHANGED <<quotaVars, longVars, runVars, altVars, pollVars, dayVars>>
    \/ Edit(i) /\ UNCHANGED <<quotaVars, longVars, runVars, altVars, pollVars, dayVars>>
    \/ Invoke(i) /\ UNCHANGED <<quotaVars, longVars, runVars, altVars, pollVars, dayVars>>
    \/ Transcribe(i) /\ UNCHANGED <<quotaVars, longVars, runVars, altVars, pollVars, dayVars>>
    \/ Stop(i) /\ UNCHANGED <<quotaVars, longVars, runVars, altVars, pollVars, dayVars>>

SpecPanel == InitPanel /\ [][NextPanel]_vars

\* ------------------------------------------------------------------ claims

Refunding == {"rf_decr", "rf_set", "rf_ttl", "rf_expire"}

Done(r) == pc[r] = "done"

\* no other request has started: request r runs without concurrent writers
Solo(r) == \A o \in Requests \ {r} : pc[o] = "idle"

\* C1: under any interleaving of reservations and refunds on one key, the
\* counter stored for the key never exceeds the daily limit.
C1_CounterWithinLimit == GetInt(quota) <= STT_DAILY_LIMIT_SECONDS

\* C1 witness: one request was turned away by the script while the counter
\* still holds the reservation of another request that is now refunding.
C1_Witness ==
  \E a, b \in Requests :
    /\ a # b
    /\ pc[a] \in Refunding /\ obs[a].via = "reply" /\ obs[a].ok
    /\ obs[b].via = "reply" /\ ~obs[b].ok
    /\ GetInt(quota) > 0

\* C2 (as claimed): a reservation the store answers returns false and leaves the
\* key as it is when cur + seconds > limit, and otherwise adds exactly seconds
\* and returns true.
C2_ReserveContract ==
  [][\A r \in Requests :
       (pc[r] = "reserve" /\ pc'[r] # "reserve" /\ obs'[r].via = "reply") =>
         IF GetInt(quota) + reserved_sec[r] > STT_DAILY_LIMIT_SECONDS
           THEN ~obs'[r].ok /\ quota' = quota
           ELSE obs'[r].ok /\ GetInt(quota') = GetInt(quota) + reserved_sec[r]]_vars

\* C3: a request calls stt_try_reserve at most once, exactly once when Prepare
\* completed, and stt_refund at most once, on every path.
C3_ReserveRefundOnce ==
  \A r \in Requests :
    /\ obs[r].nReserve <= 1
    /\ obs[r].nRefund <= 1
    /\ (pc[r] \in {"idle", "reserve"} => obs[r].nReserve = 0)
    /\ (pc[r] \notin {"idle", "reserve"} /\ reserved_sec[r] > 0 => obs[r].nReserve = 1)

\* C3 witness: a request that reserved, failed in a later step and was refunded
\* by the except block has returned.
C3_Witness ==
  \E r \in Requests :
    /\ Done(r) /\ outcome[r] = "Failed"
    /\ obs[r].nReserve = 1 /\ obs[r].nRefund = 1

\* C4 (as claimed): when attempt 1 returns an API error, no further attempt is
\* made, stt_refund is called exactly once, the request's effect on the counter
\* is undone and no histogram is updated.
C4_ApiErrorRefunded ==
  \A r \in Requests :
    (Done(r) /\ obs[r].att \in {"apierr", "apierr+"}) =>
      /\ obs[r].att = "apierr"
      /\ obs[r].nRefund = 1
      /\ (Solo(r) => obs[r].net = 0)
      /\ obs[r].histCalls = 0

\* C5 (as claimed): after stt_try_reserve returned false no refund is issued, no
\* recognizer is called, no histogram is updated and the request leaves the
\* counter as it was.
C5_RejectedNeverRefunds ==
  \A r \in Requests :
    (obs[r].nReserve = 1 /\ ~obs[r].ok) =>
      /\ pc[r] \notin Refunding
      /\ obs[r].nRefund = 0
      /\ obs[r].att = "none"
      /\ obs[r].histCalls = 0
      /\ obs[r].net = 0

\* C6 (as claimed): a request that reached Post (its histogram updates began)
\* is never refunded afterwards.
C6_PostedNeverRefunds ==
  \A r \in Requests :
    obs[r].histCalls > 0 => (pc[r] \notin Refunding /\ obs[r].nRefund = 0)

\* C7: a request whose every recognition attempt returned an empty transcript
\* ends as NoSpeech, is not refunded and updates no histogram.
C7_NoSpeechKeepsQuota ==
  \A r \in Requests :
    obs[r].att = "empty" =>
      /\ Done(r) /\ outcome[r] = "NoSpeech"
      /\ obs[r].nRefund = 0
      /\ obs[r].histCalls = 0

\* C7 witness: a request whose reservation was counted ended as NoSpeech after
\* attempts that all came back empty.
C7_Witness ==
  \E r \in Requests :
    /\ obs[r].att = "empty" /\ outcome[r] = "NoSpeech"
    /\ obs[r].via = "reply" /\ obs[r].net = reserved_sec[r]

\* C8 (as claimed): every request that ends in Success or NoSpeech has raised
\* the counter by reserved_sec.
C8_ConsumedAlways ==
  \A r \in Requests :
    (Done(r) /\ outcome[r] \in {"Success", "NoSpeech"}) => obs[r].net = reserved_sec[r]

\* C8 (amended): every request that ends in Success or NoSpeech and whose
\* reservation was decided by the store's script (it did not fail open) has
\* raised the counter by exactly reserved_sec.
C8_ConsumedWhenStoreAnswered ==
  \A r \in Requests :
    (Done(r) /\ outcome[r] \in {"Success", "NoSpeech"} /\ obs[r].via = "reply") =>
      obs[r].net = reserved_sec[r]

\* C8 witness: a request whose reservation the script granted ended in Success
\* after another request had already used part of the limit.
C8_Witness ==
  \E r \in Requests :
    /\ Done(r) /\ outcome[r] = "Success" /\ obs[r].via = "reply"
    /\ obs[r].net = reserved_sec[r]
    /\ GetInt(quota) > reserved_sec[r]

C10_NeverSeenNegative ==
  \A r \in Requests : ~obs[r].negUsed /\ ~obs[r].negCur

Max(a, b) == IF a >= b THEN a ELSE b

\* C11: without concurrent callers, a refund of s seconds whose commands all
\* completed leaves the counter at max(0, cur - s), cur being the counter the
\* refund found; a second refund after the reservation was already given back
\* leaves 0, not a negative value.
C11_RefundClamps ==
  \A r \in Requests :
    pc[r] = "rf_ttl" =>
      GetInt(quota) = Max(0, obs[r].pre - reserved_sec[r])

\* C11 witness: one request reserved s through the script and was refunded; a
\* second request (its reservation failed open) refunds s again, finds the
\* counter at 0 and has completed DECRBY and the clamp.
C11_Witness ==
  \E a, b \in Requests :
    /\ a # b
    /\ Done(a) /\ obs[a].via = "reply" /\ obs[a].ok /\ obs[a].nRefund = 1
    /\ obs[a].net = 0 /\ reserved_sec[a] = reserved_sec[b]
    /\ pc[b] = "rf_ttl" /\ obs[b].pre = 0 /\ obs[b].via = "raise"
    /\ GetInt(quota) = 0

\* C12 (as claimed): a request cancelled after its reservation was granted and
\* before Post has had its reserved seconds refunded.
C12_CancelRefunds ==
  \A r \in Requests :
    (Done(r) /\ outcome[r] = "Cancelled" /\ obs[r].ok /\ obs[r].histCalls = 0) =>
      obs[r].nRefund = 1

\* the object of a call is in the bucket, the call never tried to delete it and
\* no delayed deletion was scheduled for it
LeftBehind(c) == gcs[c] = "stored" /\ ~call[c].tried /\ delTask[c] = "none"

\* C13 (as claimed): for every cleanup configuration, the object uploaded by a
\* call that returned was deleted (or its deletion attempted) before the
\* return, or has a delayed deletion scheduled.
C13_NoObjectLeft ==
  \A c \in Calls : call[c].pc = "ret" => ~LeftBehind(c)

\* C14 (as claimed): with a cleanup policy configured, a call that returned
\* from a failed start or a failed poll has deleted its object or scheduled
\* the deletion.
C14_FailureStillCleans ==
  \A c \in Calls :
    (/\ call[c].pc = "ret"
     /\ call[c].site \in {"start_error", "no_name", "poll_error"}
     /\ (delete_immediately \/ delete_after_seconds > 0)) => ~LeftBehind(c)

\* C15 (as claimed): a call cancelled while starting or polling the operation
\* has deleted its uploaded object or scheduled the deletion.
C15_CancelStillCleans ==
  \A c \in Calls : call[c].pc = "cancelled" => ~LeftBehind(c)

PostSteps == {"post", "ch_set", "us_get", "us_set", "send"}

\* C16 (as claimed): a request has called the histogram updates if and only if
\* it ended in Success, and then (no concurrent writer) both histograms hold
\* one more for the detected code.
C16_HistogramsIffSuccess ==
  \A r \in Requests :
    Done(r) =>
      /\ (obs[r].histCalls > 0) <=> (outcome[r] = "Success")
      /\ (outcome[r] = "Success" /\ Solo(r)) => (chanHist = 1 /\ userHist = 1)

\* C17: the attempts of a request are strict, alternates, strict, alternates
\* in this order, at most four; none follows an attempt that returned text;
\* the third and fourth are made only after the re-transcode, which never runs
\* when Normalize transcoded (then at most two attempts are made).
C17_AttemptOrder ==
  /\ Len(attempts) <= 4
  /\ \A i \in 1..Len(attempts) :
       /\ attempts[i].kind = (IF i \in {1, 3} THEN "strict" ELSE "alts")
       /\ i < Len(attempts) => ~HasText(attempts[i].res)
  /\ did_trans => (Len(attempts) <= 2 /\ ~retranscoded /\ at # "retrans")
  /\ Len(attempts) >= 3 => retranscoded
  /\ at = "a4" => Len(attempts) = 3
  /\ at \in {"normalize", "pick", "a1"} => Len(attempts) = 0

\* C17 witness: a request whose input Normalize left alone made all four
\* attempts, the last one returning text.
C17_Witness ==
  /\ at = "end" /\ ending = "post" /\ ~did_trans /\ retranscoded
  /\ Len(attempts) = 4 /\ attempts[4].res = "Text"

\* C18 (as claimed): a request never goes on to Post holding the error text of
\* an API error as its transcript.
C18_LaterApiErrorNotText ==
  \A r \in Requests : pc[r] \in PostSteps => ~IsApiError(text[r])

\* C19 (as claimed): every recognition request sent by a strict attempt
\* (attempt 1, and attempt 3 after the re-transcode) carries the primary
\* language and no alternative language codes, whichever backend serves it.
C19_StrictCarriesNoAlternates ==
  \A q \in sent :
    q.n \in {1, 3} => (q.alts = {} /\ q.lang = base_lang_code)

\* C20: no synchronous request carries more than 9 000 000 bytes; the first
\* attempt on a .wav of exactly 9 000 000 bytes sends a synchronous request
\* for it, and the first pass on a .wav of 9 000 001 bytes sends long-running
\* requests only.
C20_SyncCeiling ==
  /\ \A q \in sent : q.api = "sync" => q.size <= SYNC_MAX_BYTES
  /\ (/\ filename = ".wav" /\ raw_bytes = SYNC_MAX_BYTES
      /\ Len(attempts) >= 1 /\ attempts[1].res # "Raise") =>
       /\ ~use_long \/ retranscoded
       /\ \E q \in sent : q.n = 1 /\ q.api = "sync" /\ q.size = SYNC_MAX_BYTES
  /\ (filename = ".wav" /\ raw_bytes = SYNC_MAX_BYTES + 1) =>
       /\ at \in {"a1", "a2"} => use_long
       /\ \A q \in sent : q.n \in {1, 2} => q.api = "long"

\* C20 witness: a .wav of 9 000 001 bytes went through the first pass in long
\* mode, came out of the re-transcode at exactly 9 000 000 bytes and was then
\* sent in a synchronous request.
C20_Witness ==
  /\ filename = ".wav" /\ raw_bytes = SYNC_MAX_BYTES + 1
  /\ \E q \in sent : q.n = 1 /\ q.api = "long"
  /\ \E q \in sent : q.n = 3 /\ q.api = "sync" /\ q.size = SYNC_MAX_BYTES

\* the compressed family: by extension or by content type
Compressed(name, ct) ==
  \/ name \in {".mp3", ".m4a", ".mp4", ".ogg", ".opus", ".webm"}
  \/ Contains(ct, "ogg") \/ Contains(ct, "webm") \/ Contains(ct, "mpeg")
  \/ Contains(ct, "video/mp4")

\* the backend rule: over the ceiling, or compressed and over the lower threshold
WantsLong(q) ==
  \/ q.size > SYNC_MAX_BYTES
  \/ Compressed(q.name, q.ctype) /\ q.size > FORCE_LONG_BYTES

\* C21: the backend of a blob is long-running exactly when the blob is over
\* 9,000,000 bytes, or of the compressed family and over 1,800,000 bytes. (A
\* blob the orchestrator picked long-running for, and a blob sent long-running
\* after the synchronous API refused it, are left out of the "only when" side.)
C21_BackendBySize ==
  \A q \in sent :
    /\ q.api = "sync" => ~WantsLong(q)
    /\ (/\ q.api = "long"
        /\ ~q.picked
        /\ ~\E s \in sent : s.n = q.n /\ s.api = "sync") => WantsLong(q)

\* C22: every blob sent to the long-running recognizer was transcoded to WAV
C22_LongBlobIsWav == \A q \in sent : q.api = "long" => q.ctype = "audio/wav"

C24_AtMostThreeAlternates == \A q \in sent : Cardinality(q.alts) <= MAX_ALTS

\* C25: a request in which a transcode failed ends in the error path, which
\* refunds the reservation
C25_TranscodeFailureRefunded ==
  at = "end" /\ failed # {} => ending \in {"raise", "apierr"}

\* the result as a set
Chosen == {picked_alts[i] : i \in DOMAIN picked_alts}

\* C26: for a Thai, Khmer or Burmese primary the alternates picked for the
\* request (max_alts = 3, context bias from detect_lang_hints_from_context)
\* contain en-US
C26_EnglishAlwaysPicked ==
  (/\ picked
   /\ LangBase(base_lang) \in {"th", "km", "my"}
   /\ max_alts = MAX_ALTS
   /\ context_bias # [c \in AltPool |-> 0]) => "en-US" \in Chosen

\* C27: the result of pick_alternative_langs never holds base_lang, holds no
\* code twice, holds only pool codes, has min(max_alts, pool codes other than
\* base_lang) entries, and a positive-weight code in it is preceded only by codes
\* of at least its weight (so the top-up codes come last)
C27_PickPostconditions ==
  picked =>
    LET w == Weights(channel_hist, user_hist, context_bias)
        others == Cardinality(AltPool \ {base_lang})
    IN /\ base_lang \notin Chosen
       /\ Cardinality(Chosen) = Len(picked_alts)
       /\ Chosen \subseteq AltPool
       /\ Len(picked_alts) = (IF max_alts < others THEN max_alts ELSE others)
       /\ \A i, j \in DOMAIN picked_alts :
            i < j /\ w[picked_alts[j]] > 0 => w[picked_alts[i]] >= w[picked_alts[j]]

C27_Witness ==
  LET w == Weights(channel_hist, user_hist, context_bias)
  IN /\ picked
     /\ Len(picked_alts) = 3
     /\ picked_alts[1] = "ko-KR" /\ picked_alts[2] = "ja-JP" /\ picked_alts[3] = "en-US"
     /\ w[picked_alts[1]] > w[picked_alts[2]] /\ w[picked_alts[2]] > 0 /\ w[picked_alts[3]] = 0

\* C28: ensure_stt_compatible transcodes (did_transcode, name .wav, type
\* audio/wav) exactly when the extension is .m4a, .mp4 or .aac, or the content
\* type indicates audio/mp4, video/mp4 or audio/aac, or the extension is .webm
\* and the content type holds no "opus"; otherwise bytes, name and type come
\* back unchanged with did_transcode false
C28_TranscodeRule ==
  LET need == \/ filename \in {".m4a", ".mp4", ".aac"}
              \/ content_type \in {"audio/mp4", "video/mp4", "audio/aac"}
              \/ filename = ".webm" /\ content_type # "audio/webm;codecs=opus"
  IN (at # "normalize" /\ "normalize" \notin failed) =>
       /\ did_trans = need
       /\ at = "pick" =>
            IF need THEN filename2 = ".wav" /\ content_type2 = "audio/wav"
                    ELSE /\ filename2 = filename
                         /\ content_type2 = content_type
                         /\ audio_bytes = raw_bytes

C28_Witness ==
  /\ at = "pick"
  /\ filename = "" /\ content_type = "audio/aac"
  /\ did_trans /\ filename2 = ".wav" /\ content_type2 = "audio/wav"

\* C29: the seconds given to stt_try_reserve are at least 1, the probed
\* duration when it is positive and 60 when it is 0; the script adds exactly
\* them, they stay the same for the rest of the request and the refund takes
\* exactly them off
C29_ReservedSeconds ==
  [][\A r \in Requests :
       /\ (pc[r] = "idle" /\ pc'[r] = "reserve") =>
            /\ reserved_sec'[r] >= 1
            /\ \E p \in ProbeResults :
                 reserved_sec'[r] = (IF p > 0 THEN p ELSE 60)
       /\ (pc[r] = "reserve" /\ pc'[r] = "recog" /\ obs'[r].via = "reply") =>
            GetInt(quota') = GetInt(quota) + reserved_sec[r]
       /\ pc[r] # "idle" => reserved_sec'[r] = reserved_sec[r]
       /\ (pc[r] = "rf_decr" /\ pc'[r] \in {"rf_set", "rf_ttl"}) =>
            quota'.val = GetInt(quota) - reserved_sec[r]]_vars

C29_Witness ==
  \E r \in Requests :
    /\ pc[r] = "rf_ttl"
    /\ reserved_sec[r] = PROBE_FLOOR
    /\ obs[r].via = "reply" /\ obs[r].nReserve = 1 /\ obs[r].nRefund = 1
    /\ obs[r].net = 0

\* C30: a request that has left the handler has left no scratch file behind
C30_ScratchRemoved == \A r \in Requests : pc[r] = "done" => scratch[r] # "file"

\* C31: when a stt_try_reserve that returned true or a stt_refund has
\* completed (a cancelled call has not), the quota key, if it exists, has an
\* expiry
C31_KeyAlwaysExpires ==
  [][\A r \in Requests :
       (\/ pc[r] = "reserve" /\ pc'[r] = "recog"
        \/ pc[r] \in Refunding /\ pc'[r] \notin Refunding /\ outcome'[r] # "Cancelled")
         => (quota'.exists => quota'.ttl)]_vars

\* ceil(a / b) for b > 0
Ceil(a, b) == (a + b - 1) \div b

Active(r) == obs[r].via = "reply" /\ obs[r].ok /\ obs[r].nRefund = 0

RECURSIVE ActiveSeconds(_)
ActiveSeconds(rs) ==
  IF rs = {} THEN 0
  ELSE LET r == CHOOSE x \in rs : TRUE
       IN (IF Active(r) THEN reserved_sec[r] ELSE 0) + ActiveSeconds(rs \ {r})

\* no reservation failed open: the store answered every stt_try_reserve
StoreReached == redisClient /\ \A r \in Requests : obs[r].via \notin {"raise", "noclient"}

\* C33: while the store is reachable, the seconds of the reservations that
\* returned true and were not refunded (the earlier request's included) never
\* exceed the daily limit
C33_ActiveWithinLimit ==
  StoreReached => EarlierSeconds + ActiveSeconds(Requests) <= STT_DAILY_LIMIT_SECONDS

\* C34: a request calls stt_refund only after its stt_try_reserve incremented
\* the counter, and a request whose reservation failed open never decrements
\* the counter
C34_RefundFollowsIncrement ==
  [][\A r \in Requests :
       /\ pc'[r] = "rf_decr" => obs[r].via = "reply" /\ obs[r].ok
       /\ (pc[r] = "rf_decr" /\ quota' # quota) => obs[r].via # "raise"]_vars

\* C35: when the sync call of attempt 1 timed out or failed in transport, the
\* attempts stop there and the request takes the API-error path (refund, no
\* transcript, no histogram)
C35_TimeoutIsFailure ==
  (/\ Len(attempts) >= 1
   /\ ~attempts[1].long
   /\ attempts[1].res \in {"Timeout", "ErrText"})
    => at = "end" /\ ending = "apierr"

\* C36: a sync request whose bytes are WAV made by the transcoder (in the
\* normalisation or in the re-transcode before attempt 3) has encoding LINEAR16
C36_TranscodedWavIsLinear16 ==
  \A q \in sent :
    (q.api = "sync" /\ q.ctype = "audio/wav" /\ (did_trans \/ q.n >= 3))
      => q.enc = "LINEAR16"

\* C37: the mode tag of a posted transcript (stt_mode, which follows use_long)
\* names the backend of the attempt that produced it
C37_TagNamesBackend ==
  (at = "end" /\ ending = "post")
    => (use_long <=> attempts[Len(attempts)].long)

\* C38: on_choose_lang is invoked at most once for a panel, and at most one
\* reservation follows, whatever interactions arrive and however their
\* callbacks interleave
C38_OneInvocationPerPanel == Len(calls) <= 1 /\ reserves <= 1

C38_Witness ==
  /\ Len(calls) = 1 /\ reserves = 1
  /\ \E i, j \in Interactions :
       /\ clicks[i].pc = "done" /\ clicks[i].code = "kh" /\ calls[1] = "km-KH"
       /\ j # i /\ clicks[j].pc = "done" /\ clicks[j].code # "none"

\* r completes the SET step of its channel / user histogram update
ChanStep(r) == pc[r] = "ch_set" /\ pc'[r] = "us_get"
UserStep(r) == pc[r] = "us_set" /\ pc'[r] = "send"

\* C39: every histogram update whose store calls succeeded raises the count by
\* exactly one, whatever the interleaving, and no count ever decreases
C39_CountsNeverLost ==
  [][/\ chanHist' >= chanHist /\ userHist' >= userHist
     /\ \A r \in Requests :
          ~obs'[r].histErr =>
            /\ ChanStep(r) => chanHist' = chanHist + 1
            /\ UserStep(r) => userHist' = userHist + 1]_vars

\* C39, amended: updates are last-writer-wins. An update stores one more than
\* the count its own GET returned (0 when the GET raised) or, when its SET
\* raises, nothing; a count never exceeds the number of updates made
C39_LastWriterWins ==
  [][/\ \A r \in Requests :
          /\ ChanStep(r) =>
               /\ chanHist' \in {chanHist, hist[r] + 1}
               /\ ~obs'[r].histErr => chanHist' = hist[r] + 1
          /\ UserStep(r) =>
               /\ userHist' \in {userHist, hist[r] + 1}
               /\ ~obs'[r].histErr => userHist' = hist[r] + 1
     /\ chanHist' <= Cardinality({r \in Requests :
                                    obs'[r].histCalls >= 1 /\ pc'[r] # "ch_set"})
     /\ userHist' <= Cardinality({r \in Requests :
                                    obs'[r].histCalls >= 2 /\ pc'[r] # "us_set"})]_vars

\* both requests updated the channel histogram without a store error, and one
\* count was lost
C39_Witness ==
  /\ \A r \in Requests : pc[r] = "us_get" /\ ~obs[r].histErr /\ hist[r] = 0
  /\ chanHist = 1

\* C40: the DECRBY of a refund goes to the key of the date on which the
\* request's reservation incremented the counter
C40_RefundHitsReservedKey ==
  [][\A r \in Requests :
       (/\ pc[r] = "rf_decr" /\ quota' # quota /\ today' = today
        /\ obs[r].via = "reply" /\ obs[r].ok)
         => reservedOn[r] = today]_vars

====
